---- MODULE Spec2Model ----
(***************************************************************************)
(* Model of BikeShareDataLoader (src/bike_class.py): the catalog fetch of  *)
(* the constructor, the per-resource loop of get_files, the archive        *)
(* expansion of extract_valid_dataframes_from_zip, the encoding selection  *)
(* of the two CSV paths and the concatenation of create_df.                *)
(*                                                                         *)
(* Python strings are sequences of one-character strings, so that lower(), *)
(* endswith() and the "in" substring test are computed, not assumed.       *)
(*                                                                         *)
(* Spec is the loader: construction, then builds, one pass of the loop of  *)
(* get_files per step.  SpecZip and SpecEnc run the archive expansion and  *)
(* the encoding selection by themselves over larger sets of inputs.        *)
(***************************************************************************)
EXTENDS Integers, Sequences, FiniteSets, TLC

VARIABLES pc, response, resources, year, i, dfs, log, last, result, call, ret

vars == <<pc, response, resources, year, i, dfs, log, last, result, call, ret>>

(***************************************************************************)
(* Bounds of the model.                                                    *)
(***************************************************************************)
MaxCatalog == 2
MaxEntries == 2
MaxRows == 2
MaxZipEntries == 3

(***************************************************************************)
(* Python string operations.                                               *)
(***************************************************************************)
UpperChars == <<"A","B","C","D","E","F","G","H","I","J","K","L","M",
                "N","O","P","Q","R","S","T","U","V","W","X","Y","Z">>
LowerChars == <<"a","b","c","d","e","f","g","h","i","j","k","l","m",
                "n","o","p","q","r","s","t","u","v","w","x","y","z">>
DigitChars == <<"0","1","2","3","4","5","6","7","8","9">>

LowerChar(c) ==
    IF \E k \in 1..26 : UpperChars[k] = c
    THEN LowerChars[CHOOSE k \in 1..26 : UpperChars[k] = c]
    ELSE c

\* s.lower()
StrLower(s) == [k \in 1..Len(s) |-> LowerChar(s[k])]

\* sub in s
Contains(s, sub) ==
    \E k \in 0..(Len(s) - Len(sub)) : SubSeq(s, k + 1, k + Len(sub)) = sub

\* s.endswith(suffix)
EndsWith(s, suffix) ==
    /\ Len(suffix) <= Len(s)
    /\ SubSeq(s, Len(s) - Len(suffix) + 1, Len(s)) = suffix

\* s.endswith((a, b, ...))
EndsWithAny(s, suffixes) == \E x \in suffixes : EndsWith(s, x)

\* str(n) for a natural number n
RECURSIVE Str(_)
Str(n) ==
    IF n < 10 THEN <<DigitChars[n + 1]>>
    ELSE Str(n \div 10) \o <<DigitChars[(n % 10) + 1]>>

S_readme == <<"r","e","a","d","m","e">>
S_zip == <<"z","i","p">>
S_xlsx == <<"x","l","s","x">>
S_csv == <<"c","s","v">>
S_ascii == <<"a","s","c","i","i">>
S_cp1252 == <<"c","p","1","2","5","2">>
S_utf8 == <<"u","t","f","-","8">>
ExtZip == <<".">> \o S_zip
ExtXlsx == <<".">> \o S_xlsx
ExtCsv == <<".">> \o S_csv

(***************************************************************************)
(* Optional values: a Python value that is either None or a string.        *)
(***************************************************************************)
None == [none |-> TRUE, s |-> <<>>]
Some(s) == [none |-> FALSE, s |-> s]
\* truthiness of an optional string: None and '' are falsy
Truthy(v) == ~v.none /\ v.s # <<>>

\* chardet's result: a dict that may or may not hold the key 'encoding'
Detected(haskey, val) == [haskey |-> haskey, val |-> val]

(***************************************************************************)
(* Encoding selection, one operator per CSV path.                          *)
(***************************************************************************)
\* the selection with the comparison of line 48 made without lower()
SniffZipNoLower(detected) ==
    LET encoding == IF detected.haskey THEN detected.val ELSE Some(S_utf8)
    IN  IF Truthy(encoding) /\ encoding.s = S_ascii THEN Some(S_cp1252) ELSE encoding

\* lines 45-49: the CSV-in-ZIP path
SniffZip(detected) ==
    LET encoding == IF detected.haskey THEN detected.val ELSE Some(S_utf8)
    IN  IF Truthy(encoding) /\ StrLower(encoding.s) = S_ascii
        THEN Some(S_cp1252) ELSE encoding

\* lines 77-80: the direct-CSV path
SniffCsv(detected) ==
    LET encoding == IF detected.haskey THEN detected.val ELSE Some(S_utf8)
    IN  IF Truthy(encoding) /\ StrLower(encoding.s) = S_ascii
        THEN Some(S_cp1252) ELSE encoding

(***************************************************************************)
(* Tables.  A Table records where it came from (d: position of the         *)
(* descriptor in the catalog, e: position of the entry in the archive, 0   *)
(* for a directly parsed resource; name: the archive entry's name), which  *)
(* parser produced it, the encoding handed to read_csv and its row count.  *)
(* Row r of a Table is the triple <<d, e, r>>.                            *)
(***************************************************************************)
Table(e, name, parser, enc, nrows) ==
    [d |-> 0, e |-> e, name |-> name, parser |-> parser, enc |-> enc, nrows |-> nrows]

Rows(t) == [r \in 1..t.nrows |-> <<t.d, t.e, r>>]

(***************************************************************************)
(* Archive expansion.                                                      *)
(***************************************************************************)
\* the test of line 40 without its year part
ZipEntryEligibleAnyYear(filename, year_str) ==
    EndsWithAny(filename, {ExtCsv, ExtXlsx})

\* line 40
ZipEntryEligible(filename, year_str) ==
    EndsWithAny(filename, {ExtCsv, ExtXlsx}) /\ Contains(filename, year_str)

\* lines 41-54 for one eligible entry: the Table it yields (when its parse succeeds)
ParseEntry(entry, k) ==
    IF EndsWith(entry.name, ExtCsv)
    THEN Table(k, entry.name, "csv", SniffZip(entry.det), entry.nrows)
    ELSE Table(k, entry.name, "xlsx", None, entry.nrows)

\* lines 38-54: the loop over z.namelist() from entry k on; an exception of a
\* parse leaves the function, and the local list dfs with it
RECURSIVE ExtractLoop(_, _, _, _, _)
ExtractLoop(entries, k, year_str, acc, opened) ==
    IF k > Len(entries) THEN [raised |-> FALSE, tables |-> acc, opened |-> opened]
    ELSE IF ~ZipEntryEligible(entries[k].name, year_str)
         THEN ExtractLoop(entries, k + 1, year_str, acc, opened)
    ELSE IF ~entries[k].ok
         THEN [raised |-> TRUE, tables |-> <<>>, opened |-> opened \cup {k}]
    ELSE ExtractLoop(entries, k + 1, year_str,
                     Append(acc, ParseEntry(entries[k], k)), opened \cup {k})

\* a variant that catches the exception of each entry by itself
RECURSIVE ExtractLoopIsolating(_, _, _, _, _)
ExtractLoopIsolating(entries, k, year_str, acc, opened) ==
    IF k > Len(entries) THEN [raised |-> FALSE, tables |-> acc, opened |-> opened]
    ELSE IF ~ZipEntryEligible(entries[k].name, year_str)
         THEN ExtractLoopIsolating(entries, k + 1, year_str, acc, opened)
    ELSE IF ~entries[k].ok
         THEN ExtractLoopIsolating(entries, k + 1, year_str, acc, opened \cup {k})
    ELSE ExtractLoopIsolating(entries, k + 1, year_str,
                     Append(acc, ParseEntry(entries[k], k)), opened \cup {k})

extract_isolating(zip_content, y) ==
    IF ~zip_content.zip THEN [raised |-> TRUE, tables |-> <<>>, opened |-> {}]
    ELSE ExtractLoopIsolating(zip_content.entries, 1, Str(y), <<>>, {})

\* lines 34-55; zipfile.ZipFile raises on content that is no archive
extract_valid_dataframes_from_zip(zip_content, y) ==
    IF ~zip_content.zip THEN [raised |-> TRUE, tables |-> <<>>, opened |-> {}]
    ELSE ExtractLoop(zip_content.entries, 1, Str(y), <<>>, {})

(***************************************************************************)
(* The catalog.                                                            *)
(***************************************************************************)
\* a catalog response: whether the GET returned, whether its body is JSON, and
\* which of the fields success / result / result.resources the body holds
Response(net, json, hasSuccess, success, hasResult, hasResources, res) ==
    [net |-> net, json |-> json, hasSuccess |-> hasSuccess, success |-> success,
     hasResult |-> hasResult, hasResources |-> hasResources, resources |-> res]

\* get_metadata without the assert of line 31
get_metadata_unchecked(resp) ==
    IF ~resp.net \/ ~resp.json \/ ~resp.hasResult \/ ~resp.hasResources
    THEN [raised |-> TRUE, value |-> <<>>]
    ELSE [raised |-> FALSE, value |-> resp.resources]

\* lines 28-32
get_metadata(resp) ==
    IF ~resp.net THEN [raised |-> TRUE, value |-> <<>>]                       \* requests.get raises
    ELSE IF ~resp.json THEN [raised |-> TRUE, value |-> <<>>]                 \* response.json()
    ELSE IF ~(resp.hasSuccess /\ resp.success) THEN [raised |-> TRUE, value |-> <<>>]  \* assert
    ELSE IF ~resp.hasResult \/ ~resp.hasResources THEN [raised |-> TRUE, value |-> <<>>] \* KeyError
    ELSE [raised |-> FALSE, value |-> resp.resources]

(***************************************************************************)
(* get_files: the filter and the body of the try statement.                *)
(***************************************************************************)
\* the filter applied to the URL as stored, not lowercased
SkippedNoLower(url, year_str) ==
    \/ ~Contains(url, year_str)
    \/ Contains(url, S_readme)
    \/ ~EndsWithAny(url, {ExtZip, ExtXlsx, ExtCsv})

\* the filter without its "readme" part
SkippedNoReadme(url, year_str) ==
    LET url_lower == StrLower(url)
    IN  \/ ~Contains(url_lower, year_str)
        \/ ~EndsWithAny(url_lower, {ExtZip, ExtXlsx, ExtCsv})

\* lines 61-64: TRUE when the loop continues without fetching
Skipped(url, year_str) ==
    LET url_lower == StrLower(url)
    IN  \/ ~Contains(url_lower, year_str)
        \/ Contains(url_lower, S_readme)
        \/ ~EndsWithAny(url_lower, {ExtZip, ExtXlsx, ExtCsv})

Raised == [raised |-> TRUE, tables |-> <<>>, opened |-> {}]
Returned(tables) == [raised |-> FALSE, tables |-> tables, opened |-> {}]

\* what the try body would do if it chose the parser from the URL's suffix
TryBodyBySuffix(value, p, y) ==
    IF ~p.net THEN Raised
    ELSE LET fmt == StrLower(value.url)
         IN  IF EndsWith(fmt, S_zip) THEN extract_valid_dataframes_from_zip(p, y)
             ELSE IF EndsWith(fmt, S_xlsx)
                  THEN IF p.ok THEN Returned(<<Table(0, value.url, "xlsx", None, p.nrows)>>)
                       ELSE Raised
             ELSE IF EndsWith(fmt, S_csv)
                  THEN IF p.ok
                       THEN Returned(<<Table(0, value.url, "csv", SniffCsv(p.det), p.nrows)>>)
                       ELSE Raised
             ELSE Returned(<<>>)

\* lines 68-82: the fetch and the dispatch on value["format"].lower(); the result
\* is the list of Tables to add to dfs, or raised when an exception left the body
TryBody(value, p, y) ==
    IF ~p.net THEN Raised
    ELSE LET fmt == StrLower(value.format)
         IN  IF fmt = S_zip THEN extract_valid_dataframes_from_zip(p, y)
             ELSE IF fmt = S_xlsx
                  THEN IF p.ok THEN Returned(<<Table(0, value.url, "xlsx", None, p.nrows)>>)
                       ELSE Raised
             ELSE IF fmt = S_csv
                  THEN IF p.ok
                       THEN Returned(<<Table(0, value.url, "csv", SniffCsv(p.det), p.nrows)>>)
                       ELSE Raised
             ELSE Returned(<<>>)

\* the Tables of one descriptor, marked with the descriptor's position
FromDescriptor(tables, idx) ==
    [k \in 1..Len(tables) |-> [tables[k] EXCEPT !.d = idx]]

\* an except clause that loses what was collected so far
CollectedReset(old, out, idx) ==
    IF out.raised THEN <<>> ELSE old \o FromDescriptor(out.tables, idx)

\* lines 71, 74, 82-84: dfs after one descriptor; the except clause leaves dfs as it was
Collected(old, out, idx) ==
    IF out.raised THEN old ELSE old \o FromDescriptor(out.tables, idx)

(***************************************************************************)
(* create_df: the concatenation.                                           *)
(***************************************************************************)
RECURSIVE ConcatRows(_)
ConcatRows(data) ==
    IF data = <<>> THEN <<>> ELSE Rows(Head(data)) \o ConcatRows(Tail(data))

\* a concatenation that stacks the Tables last to first
RECURSIVE ConcatRowsReversed(_)
ConcatRowsReversed(data) ==
    IF data = <<>> THEN <<>> ELSE ConcatRowsReversed(Tail(data)) \o Rows(Head(data))

create_df_reversed(data) ==
    IF data = <<>> THEN <<>> ELSE ConcatRowsReversed(data)

\* lines 89-92: pd.DataFrame() when nothing was collected, else
\* pd.concat(data, ignore_index=True); the new index is the position in the result
create_df(data) ==
    IF data = <<>> THEN <<>> ELSE ConcatRows(data)

(***************************************************************************)
(* Inputs: the catalogs the portal may serve, the years asked for and the  *)
(* payloads the resource URLs may return.                                  *)
(***************************************************************************)
Years == {20, 21}

U_csv    == <<"d","/","2","0",".","c","s","v">>
U_zip    == <<"D","/","2","0","2","1",".","Z","I","P">>
U_readme == <<"R","e","a","d","M","e","2","0",".","c","s","v">>
U_pdf    == <<"d","/","2","0",".","p","d","f">>
U_xlsx   == <<"d","/","2","1",".","x","l","s","x">>
U_json   == <<"d","/","2","1",".","z","i","p">>

Descriptor(url, format) == [url |-> url, format |-> format]

Descriptors ==
    { Descriptor(U_csv,    <<"C","S","V">>),
      Descriptor(U_zip,    <<"Z","I","P">>),
      Descriptor(U_csv,    <<"z","i","p">>),
      Descriptor(U_json,   <<"j","s","o","n">>),
      Descriptor(U_readme, <<"C","S","V">>),
      Descriptor(U_pdf,    <<"C","S","V">>),
      Descriptor(U_xlsx,   <<"X","L","S","X">>) }

SeqsUpTo(S, n) == UNION { [1..k -> S] : k \in 0..n }

\* a catalog lists each resource once
Catalogs ==
    { c \in SeqsUpTo(Descriptors, MaxCatalog) :
        \A a, b \in 1..Len(c) : a # b => c[a] # c[b] }

Responses ==
    { Response(net, json, hs, su, hr, hres, res) :
        net \in BOOLEAN, json \in BOOLEAN, hs \in BOOLEAN, su \in BOOLEAN,
        hr \in BOOLEAN, hres \in BOOLEAN, res \in Catalogs }

D_ascii == Detected(TRUE, Some(<<"A","S","C","I","I">>))
D_none  == Detected(TRUE, None)

Entry(name, ok, nrows, det) == [name |-> name, ok |-> ok, nrows |-> nrows, det |-> det]

N_20     == <<"2","0",".","c","s","v">>
N_readme == <<"r","e","a","d","m","e","2","0",".","c","s","v">>

\* archive entries served during a build
EntryPool ==
    { Entry(N_20, TRUE, 1, D_ascii), Entry(N_20, FALSE, 0, D_ascii),
      Entry(N_readme, TRUE, 2, D_none) }

Payload(net, zip, entries, ok, nrows, det) ==
    [net |-> net, zip |-> zip, entries |-> entries, ok |-> ok, nrows |-> nrows, det |-> det]

FetchError == Payload(FALSE, FALSE, <<>>, FALSE, 0, D_none)

\* content that is a ZIP archive; read as CSV or as a workbook it does not parse
Archives == { Payload(TRUE, TRUE, es, FALSE, 0, D_none) : es \in SeqsUpTo(EntryPool, MaxEntries) }

\* content that is no ZIP archive: a sheet that parses (with 1..MaxRows rows) or not
Sheets ==
    { Payload(TRUE, FALSE, <<>>, TRUE, n, D_ascii) : n \in 1..MaxRows }
    \cup { Payload(TRUE, FALSE, <<>>, FALSE, 0, D_none) }

Payloads == {FetchError} \cup Archives \cup Sheets

NoLast == [idx |-> 0, p |-> FetchError, raised |-> FALSE, opened |-> {}]
NoCall == [fn |-> "none"]
NoRet  == [fn |-> "none"]

(***************************************************************************)
(* The loader: construction, then any number of builds.                    *)
(***************************************************************************)
Init ==
    /\ pc = "new"
    /\ response \in Responses
    /\ resources = <<>>
    /\ year = 0
    /\ i = 0
    /\ dfs = <<>>
    /\ log = <<>>
    /\ last = NoLast
    /\ result = <<>>
    /\ call = NoCall
    /\ ret = NoRet

\* __init__ (lines 21-23): the exception of get_metadata leaves the constructor
Construct ==
    /\ pc = "new"
    /\ LET m == get_metadata(response)
       IN  IF m.raised
           THEN /\ pc' = "failed"
                /\ UNCHANGED resources
           ELSE /\ pc' = "ready"
                /\ resources' = m.value
    /\ UNCHANGED <<response, year, i, dfs, log, last, result, call, ret>>

\* create_df(y) is called and get_files starts (lines 58-59, 88)
CallCreateDf ==
    /\ pc \in {"ready", "built"}
    /\ \E y \in Years : year' = y
    /\ pc' = "files"
    /\ i' = 1
    /\ dfs' = <<>>
    /\ log' = <<>>
    /\ last' = NoLast
    /\ result' = <<>>
    /\ UNCHANGED <<response, resources, call, ret>>

\* one pass of the loop whose filter says continue (lines 60-64)
SkipResource ==
    /\ pc = "files"
    /\ i <= Len(resources)
    /\ Skipped(resources[i].url, Str(year))
    /\ log' = Append(log, [idx |-> i, fetched |-> FALSE, failed |-> FALSE, ntab |-> 0])
    /\ i' = i + 1
    /\ UNCHANGED <<pc, response, resources, year, dfs, last, result, call, ret>>

\* one pass of the loop that fetches the URL and dispatches (lines 66-84)
ProcessResource ==
    /\ pc = "files"
    /\ i <= Len(resources)
    /\ ~Skipped(resources[i].url, Str(year))
    /\ \E p \in Payloads :
         LET out == TryBody(resources[i], p, year)
         IN  /\ dfs' = Collected(dfs, out, i)
             /\ last' = [idx |-> i, p |-> p, raised |-> out.raised, opened |-> out.opened]
             /\ log' = Append(log, [idx |-> i, fetched |-> TRUE, failed |-> out.raised,
                                    ntab |-> Len(out.tables)])
    /\ i' = i + 1
    /\ UNCHANGED <<pc, response, resources, year, result, call, ret>>

\* the loop is over: get_files returns and create_df concatenates (lines 85, 88-92)
ReturnDf ==
    /\ pc = "files"
    /\ i > Len(resources)
    /\ result' = create_df(dfs)
    /\ pc' = "built"
    /\ UNCHANGED <<response, resources, year, i, dfs, log, last, call, ret>>

Next == Construct \/ CallCreateDf \/ SkipResource \/ ProcessResource \/ ReturnDf

Spec == Init /\ [][Next]_vars

(***************************************************************************)
(* extract_valid_dataframes_from_zip by itself: every archive of up to     *)
(* MaxZipEntries entries, drawn from names that meet or miss each part of  *)
(* the test of line 40.                                                    *)
(***************************************************************************)
ZipNames ==
    { <<"2","0",".","c","s","v">>,
      <<"2","1",".","c","s","v">>,
      <<"2","0",".","C","S","V">>,
      <<"2","0",".","x","l","s","x">>,
      <<"r","e","a","d","m","e","2","0",".","c","s","v">>,
      <<"c","s","v","2","0",".","t","x","t">> }

ZipEntries == { Entry(n, ok, 1, D_ascii) : n \in ZipNames, ok \in BOOLEAN }

ZipContents ==
    { Payload(TRUE, TRUE, es, FALSE, 0, D_none) : es \in SeqsUpTo(ZipEntries, MaxZipEntries) }

InitZip ==
    /\ pc = "call"
    /\ call \in { [fn |-> "extract", zip |-> z, year |-> y] : z \in ZipContents, y \in Years }
    /\ ret = NoRet
    /\ response = Response(FALSE, FALSE, FALSE, FALSE, FALSE, FALSE, <<>>)
    /\ resources = <<>>
    /\ year = 0
    /\ i = 0
    /\ dfs = <<>>
    /\ log = <<>>
    /\ last = NoLast
    /\ result = <<>>

\* one call of extract_valid_dataframes_from_zip(zip_content, year)
ExpandZip ==
    /\ pc = "call"
    /\ call.fn = "extract"
    /\ ret' = extract_valid_dataframes_from_zip(call.zip, call.year)
    /\ pc' = "returned"
    /\ UNCHANGED <<response, resources, year, i, dfs, log, last, result, call>>

NextZip == ExpandZip

SpecZip == InitZip /\ [][NextZip]_vars

(***************************************************************************)
(* The encoding selection by itself, over the results chardet may report.  *)
(***************************************************************************)
UpperChar(c) ==
    IF \E k \in 1..26 : LowerChars[k] = c
    THEN UpperChars[CHOOSE k \in 1..26 : LowerChars[k] = c]
    ELSE c

\* every spelling of a lower-case word in upper and lower case letters
RECURSIVE CaseVariants(_)
CaseVariants(word) ==
    IF word = <<>> THEN {<<>>}
    ELSE { <<c>> \o t : c \in {Head(word), UpperChar(Head(word))},
                        t \in CaseVariants(Tail(word)) }

EncodingNames ==
    CaseVariants(S_ascii)
    \cup CaseVariants(<<"u","t","f","-","8">>)
    \cup { <<>>,
           <<"W","i","n","d","o","w","s","-","1","2","5","2">>,
           <<"I","S","O","-","8","8","5","9","-","1">>,
           <<"a","s","c","i","i","-","x">>,
           <<"u","s","-","a","s","c","i","i">>,
           S_cp1252 }

Detections ==
    { Detected(TRUE, Some(n)) : n \in EncodingNames }
    \cup { Detected(TRUE, None), Detected(FALSE, None) }

InitEnc ==
    /\ pc = "call"
    /\ call \in { [fn |-> "sniff", detected |-> d] : d \in Detections }
    /\ ret = [csv |-> FALSE, zip |-> FALSE, csv_encoding |-> None, zip_encoding |-> None]
    /\ response = Response(FALSE, FALSE, FALSE, FALSE, FALSE, FALSE, <<>>)
    /\ resources = <<>>
    /\ year = 0
    /\ i = 0
    /\ dfs = <<>>
    /\ log = <<>>
    /\ last = NoLast
    /\ result = <<>>

\* lines 76-80 on the detector's result
SniffDirect ==
    /\ pc = "call"
    /\ call.fn = "sniff"
    /\ ~ret.csv
    /\ ret' = [ret EXCEPT !.csv = TRUE, !.csv_encoding = SniffCsv(call.detected)]
    /\ UNCHANGED <<pc, response, resources, year, i, dfs, log, last, result, call>>

\* lines 44-49 on the detector's result
SniffInArchive ==
    /\ pc = "call"
    /\ call.fn = "sniff"
    /\ ~ret.zip
    /\ ret' = [ret EXCEPT !.zip = TRUE, !.zip_encoding = SniffZip(call.detected)]
    /\ UNCHANGED <<pc, response, resources, year, i, dfs, log, last, result, call>>

NextEnc == SniffDirect \/ SniffInArchive

SpecEnc == InitEnc /\ [][NextEnc]_vars

(***************************************************************************)
(* Properties.                                                             *)
(***************************************************************************)
\* the Tables in dfs that came from the descriptor at position idx
TablesOf(idx) == SelectSeq(dfs, LAMBDA t : t.d = idx)

\* the eligibility test of an archive entry, as the specification words it
NameEligible(name, y) ==
    /\ EndsWith(name, ExtCsv) \/ EndsWith(name, ExtXlsx)
    /\ Contains(name, Str(y))

\* the URL test of a descriptor, as the specification words it
UrlIncluded(url, y) ==
    LET u == StrLower(url)
    IN  /\ Contains(u, Str(y))
        /\ ~Contains(u, S_readme)
        /\ EndsWith(u, ExtZip) \/ EndsWith(u, ExtXlsx) \/ EndsWith(u, ExtCsv)

\* C1: in a build for year Y the URL of a descriptor is fetched if and only if
\* its lowercased URL contains str(Y), does not contain "readme" and ends with
\* .zip, .xlsx or .csv; the other descriptors are passed over without a fetch,
\* and the loop visits the descriptors in catalog order.
C1_FetchIffUrlIncluded ==
    pc \in {"files", "built"} =>
        /\ Len(log) = i - 1
        /\ \A k \in 1..Len(log) :
             /\ log[k].idx = k
             /\ log[k].fetched <=> UrlIncluded(resources[k].url, year)

C1_Witness ==
    /\ pc = "built"
    /\ Len(log) = 2
    /\ \E k \in 1..2 : log[k].fetched /\ resources[k].url # StrLower(resources[k].url)
    /\ \E k \in 1..2 : ~log[k].fetched /\ Contains(StrLower(resources[k].url), S_readme)

\* C2: a descriptor whose fetch or parse fails is reported and contributes
\* nothing, the loop goes on to the next descriptor, and every descriptor
\* processed without failure, before or after the failing one, keeps all the
\* Tables it contributed.
C2_FailureIsolatedPerDescriptor ==
    pc \in {"files", "built"} =>
        /\ Len(log) = i - 1
        /\ pc = "built" => Len(log) = Len(resources)
        /\ \A k \in 1..Len(log) :
             /\ log[k].failed => TablesOf(k) = <<>>
             /\ ~log[k].failed => Len(TablesOf(k)) = log[k].ntab

C2_Witness ==
    /\ pc = "built"
    /\ Len(log) = 2
    /\ log[1].ntab > 0 /\ ~log[1].failed
    /\ log[2].failed
    /\ Len(result) > 0

\* the latest pass of the loop handed an archive to the expansion
ZipDispatched ==
    /\ pc \in {"files", "built"}
    /\ last.idx > 0
    /\ last.p.net /\ last.p.zip
    /\ StrLower(resources[last.idx].format) = S_zip

FailingEntry(k) ==
    /\ NameEligible(last.p.entries[k].name, year)
    /\ ~last.p.entries[k].ok

GoodEntry(k) ==
    /\ NameEligible(last.p.entries[k].name, year)
    /\ last.p.entries[k].ok

\* C3 as stated: when an eligible entry of an archive fails to parse, the
\* Tables of the other eligible entries of that archive are in the result.
C3_EntryFailureIsolated ==
    ZipDispatched =>
        \A j, k \in 1..Len(last.p.entries) :
            FailingEntry(j) /\ GoodEntry(k) =>
                \E n \in 1..Len(dfs) : dfs[n].d = last.idx /\ dfs[n].e = k

\* C3 amended: when an eligible entry of an archive fails to parse, the whole
\* archive is lost and nothing else: its descriptor is reported as failed and
\* contributes no Table, and the Tables of the other descriptors stay.
C3_ArchiveFailureIsolated ==
    ZipDispatched /\ (\E j \in 1..Len(last.p.entries) : FailingEntry(j)) =>
        /\ TablesOf(last.idx) = <<>>
        /\ log[last.idx].failed
        /\ \A k \in 1..Len(log) :
             k # last.idx /\ ~log[k].failed => Len(TablesOf(k)) = log[k].ntab

C3_Witness ==
    /\ ZipDispatched
    /\ \E j, k \in 1..Len(last.p.entries) : k < j /\ GoodEntry(k) /\ FailingEntry(j)
    /\ last.idx = 2
    /\ Len(TablesOf(1)) > 0

\* C4 as stated: every Table in dfs comes from a descriptor URL, or from an
\* archive entry name, that contains str(Y) and does not contain "readme".
C4_NoReadmeAnywhere ==
    \A n \in 1..Len(dfs) :
        LET ident == IF dfs[n].e = 0 THEN StrLower(resources[dfs[n].d].url)
                     ELSE dfs[n].name
        IN  Contains(ident, Str(year)) /\ ~Contains(ident, S_readme)

\* C4 amended: every Table in dfs comes from a descriptor whose lowercased URL
\* contains str(Y) and does not contain "readme", and a Table read from an
\* archive entry comes from an entry whose name contains str(Y); the entry's
\* name is not tested for "readme".
C4_YearAndUrlInvariant ==
    \A n \in 1..Len(dfs) :
        LET u == StrLower(resources[dfs[n].d].url)
        IN  /\ Contains(u, Str(year))
            /\ ~Contains(u, S_readme)
            /\ dfs[n].e > 0 => Contains(dfs[n].name, Str(year))

C4_Witness ==
    \E n \in 1..Len(dfs) :
        /\ dfs[n].e > 0
        /\ Contains(dfs[n].name, S_readme)
        /\ Contains(dfs[n].name, Str(year))

\* the catalog response is no valid JSON, or holds no true success field, or
\* holds no result.resources
BadCatalog ==
    \/ ~response.json
    \/ ~response.hasSuccess \/ ~response.success
    \/ ~response.hasResult \/ ~response.hasResources

\* C5: on such a response get_metadata fails and the constructor with it: no
\* loader holds a resource list, no build starts and no resource URL is
\* fetched; and the constructor fails only when get_metadata does (on such a
\* response, or when the catalog request itself fails).
C5_MetadataFailurePropagates ==
    /\ BadCatalog =>
         /\ pc \in {"new", "failed"}
         /\ resources = <<>> /\ log = <<>> /\ dfs = <<>> /\ last = NoLast
    /\ pc = "failed" => BadCatalog \/ ~response.net
    /\ pc \in {"ready", "files", "built"} => resources = response.resources

C5_Witness ==
    /\ pc = "failed"
    /\ response.net /\ response.json
    /\ response.hasSuccess /\ ~response.success
    /\ response.hasResult /\ response.hasResources
    /\ \E k \in 1..Len(response.resources) :
         UrlIncluded(response.resources[k].url, 20)

RECURSIVE SumRows(_)
SumRows(data) == IF data = <<>> THEN 0 ELSE Head(data).nrows + SumRows(Tail(data))

\* row a comes before row b: earlier descriptor, or the same descriptor and an
\* earlier archive entry, or the same Table and an earlier row
RowBefore(a, b) ==
    \/ a[1] < b[1]
    \/ a[1] = b[1] /\ a[2] < b[2]
    \/ a[1] = b[1] /\ a[2] = b[2] /\ a[3] < b[3]

\* C6: when at least one Table was collected, the result of create_df has as
\* many rows as the collected Tables together, holds every row of every
\* collected Table, and lists the rows by descriptor in catalog order, within
\* a descriptor by archive entry in enumeration order, within a Table by row.
C6_ConcatKeepsRowsAndOrder ==
    pc = "built" /\ dfs # <<>> =>
        /\ Len(result) = SumRows(dfs)
        /\ \A n \in 1..Len(dfs) : \A r \in 1..dfs[n].nrows :
             \E q \in 1..Len(result) : result[q] = <<dfs[n].d, dfs[n].e, r>>
        /\ \A a, b \in 1..Len(result) : a < b => RowBefore(result[a], result[b])

C6_Witness ==
    /\ pc = "built"
    /\ Len(dfs) = 3
    /\ dfs[1].e = 0 /\ dfs[1].nrows = 2
    /\ dfs[2].e = 1 /\ dfs[3].e = 2 /\ dfs[2].d = dfs[3].d
    /\ Len(result) = 5

\* C7 as stated: the expansion parses an entry if and only if its name ends
\* with .csv or .xlsx and contains str(Y).
C7_ParsedIffEligible ==
    pc = "returned" =>
        ret.opened = { k \in 1..Len(call.zip.entries) :
                         NameEligible(call.zip.entries[k].name, call.year) }

\* the eligible entries before entry k all parse
ReachedEntry(k) ==
    \A j \in 1..(k - 1) :
        NameEligible(call.zip.entries[j].name, call.year) => call.zip.entries[j].ok

\* C7 amended: the expansion parses an entry if and only if its name ends with
\* .csv or .xlsx (case-sensitive) and contains str(Y) and no eligible entry
\* before it failed to parse; the expansion raises only when an eligible entry
\* fails to parse, never on an ineligible entry; when it returns, it returns
\* one Table per eligible entry, in enumeration order, and none for an entry
\* whose name lacks the year.
C7_ParsedIffEligibleAndReached ==
    pc = "returned" =>
        LET es == call.zip.entries
            eligible == { k \in 1..Len(es) : NameEligible(es[k].name, call.year) }
        IN  /\ ret.opened = { k \in eligible : ReachedEntry(k) }
            /\ ret.raised <=> \E k \in eligible : ~es[k].ok
            /\ ~ret.raised =>
                 /\ Len(ret.tables) = Cardinality(eligible)
                 /\ \A n \in 1..Len(ret.tables) :
                      /\ ret.tables[n].e \in eligible
                      /\ ret.tables[n].name = es[ret.tables[n].e].name
                      /\ \A m \in 1..(n - 1) : ret.tables[m].e < ret.tables[n].e
            /\ ret.raised => ret.tables = <<>>

C7_Witness ==
    /\ pc = "returned"
    /\ ~ret.raised
    /\ Len(ret.tables) = 1
    /\ Len(call.zip.entries) = 3
    /\ \E k \in 1..3 : /\ k \notin ret.opened
                       /\ EndsWith(call.zip.entries[k].name, ExtCsv)
                       /\ ~Contains(call.zip.entries[k].name, Str(call.year))
    /\ \E k \in 1..3 : /\ k \notin ret.opened
                       /\ ~call.zip.entries[k].ok
                       /\ Contains(call.zip.entries[k].name, Str(call.year))
                       /\ EndsWith(StrLower(call.zip.entries[k].name), ExtCsv)

\* C8: a fetched descriptor is handled by its lowercased format alone, whatever
\* its URL ends with: "zip" adds the Tables of the archive's eligible entries
\* (all of them, in order, or none when the expansion raises), "xlsx" and "csv"
\* add the one Table of the parsed content (none when the parse fails), and any
\* other format adds no Table and reports no failure.
C8_DispatchOnFormatOnly ==
    pc \in {"files", "built"} /\ last.idx > 0 /\ last.p.net =>
        LET fmt == StrLower(resources[last.idx].format)
            mine == TablesOf(last.idx)
            es == last.p.entries
            eligible == { k \in 1..Len(es) : NameEligible(es[k].name, year) }
            expands == last.p.zip /\ \A k \in eligible : es[k].ok
        IN  /\ fmt = S_zip =>
                /\ \A n \in 1..Len(mine) : mine[n].e \in eligible
                /\ expands => /\ Len(mine) = Cardinality(eligible)
                              /\ ~log[last.idx].failed
                /\ ~expands => mine = <<>> /\ log[last.idx].failed
            /\ fmt \in {S_xlsx, S_csv} =>
                /\ last.p.ok => /\ Len(mine) = 1
                                /\ mine[1].e = 0
                                /\ mine[1].parser = (IF fmt = S_csv THEN "csv" ELSE "xlsx")
                                /\ mine[1].nrows = last.p.nrows
                                /\ ~log[last.idx].failed
                /\ ~last.p.ok => mine = <<>> /\ log[last.idx].failed
            /\ fmt \notin {S_zip, S_xlsx, S_csv} =>
                mine = <<>> /\ ~log[last.idx].failed

C8_Witness ==
    /\ pc \in {"files", "built"}
    /\ last.idx > 0
    /\ EndsWith(StrLower(resources[last.idx].url), ExtCsv)
    /\ StrLower(resources[last.idx].format) = S_zip
    /\ Len(TablesOf(last.idx)) = 2

\* the detector reported an encoding
Reported == call.detected.haskey /\ ~call.detected.val.none

\* what the claim says is used for a reported encoding
Expected ==
    IF StrLower(call.detected.val.s) = S_ascii THEN Some(S_cp1252) ELSE call.detected.val

\* C9: on both CSV paths, a reported encoding that is "ascii" in any letter
\* case is replaced by cp1252 and every other reported encoding is used as
\* reported; the two paths choose the same encoding for the same result of
\* the detector.
C9_AsciiBecomesCp1252 ==
    pc = "call" =>
        /\ ret.csv /\ Reported => ret.csv_encoding = Expected
        /\ ret.zip /\ Reported => ret.zip_encoding = Expected
        /\ ret.csv /\ ret.zip => ret.csv_encoding = ret.zip_encoding

C9_Witness ==
    /\ pc = "call"
    /\ ret.csv /\ ret.zip
    /\ Reported
    /\ call.detected.val.s = <<"A","s","C","i","I">>
    /\ ret.zip_encoding = Some(S_cp1252)
    /\ ret.csv_encoding = Some(S_cp1252)

\* C10: when the detector reports no encoding (its result holds None for the
\* encoding, or no encoding at all), the encoding selected is "utf-8".
C10_InconclusiveIsUtf8 ==
    pc = "call" /\ ~Reported =>
        /\ ret.csv => ret.csv_encoding = Some(S_utf8)
        /\ ret.zip => ret.zip_encoding = Some(S_utf8)

====
